---- MODULE Spec2Model ----
(***************************************************************************)
(* Model of mev_engine/src/lib.rs: the sandwich detector                   *)
(* detect_mev_sandwich with its helpers find_uniswap_swap and              *)
(* find_matching_tx.  One behaviour is one call of detect_mev_sandwich on  *)
(* an already deserialized transaction list; pc is the position of the     *)
(* call inside the function body.                                          *)
(*                                                                         *)
(* Option<T> is modelled as a sequence of length 0 (None) or 1 (Some).     *)
(* f64 slippage fractions are carried in hundredths (0.05 is 5).           *)
(* u64 timestamps keep a fixed width of TsBits bits; an unsigned           *)
(* subtraction a - b with a < b either wraps modulo 2^TsBits (build        *)
(* without overflow checks) or panics (build with overflow checks).        *)
(***************************************************************************)
EXTENDS Integers, Sequences, FiniteSets, TLC

VARIABLES transactions, pc, victim, frontrun, backrun, result, ran, underflows

vars == <<transactions, pc, victim, frontrun, backrun, result, ran, underflows>>

----------------------------------------------------------------------------
(* Bounds of the model *)

MaxLen == 3

MaxTick == 3

TsBits == 10

(* Program constants *)

MIN_TXS == 3

TIME_LIMIT == 120

SLIPPAGE_THRESHOLD == 5

----------------------------------------------------------------------------
(* Option<T> *)

None == <<>>

Some(x) == <<x>>

(* Direction *)
Direction == {"Before", "After"}

(* u64 arithmetic at width TsBits *)
Modulus == 2 ^ TsBits

Underflows(a, b) == a < b

WrappingSub(a, b) == (a - b + Modulus) % Modulus

----------------------------------------------------------------------------
(* Inputs: the transaction records a caller may supply.  Only the fields   *)
(* read by the detector are kept.                                          *)

Timestamps == {k * (TIME_LIMIT \div 3) : k \in 0..MaxTick}

Slippages == {None, Some(SLIPPAGE_THRESHOLD), Some(2 * SLIPPAGE_THRESHOLD)}

(* Swaps by a user U and plain transactions by the bots A and B on the     *)
(* pool P at every timestamp, and one transaction on another pool Q.  The  *)
(* detector reads the timestamp of a transaction only after the filter on  *)
(* `to`, so the transaction on Q is drawn at a single timestamp.           *)
TxPool ==
    [to : {"P"}, sender : {"U"}, slippage_tolerance : Slippages,
     is_uniswap_swap : {TRUE}, timestamp : Timestamps]
    \cup
    [to : {"P"}, sender : {"A", "B"}, slippage_tolerance : {None},
     is_uniswap_swap : {FALSE}, timestamp : Timestamps]
    \cup
    [to : {"Q"}, sender : {"A"}, slippage_tolerance : {None},
     is_uniswap_swap : {FALSE}, timestamp : {0}]

Transaction(h, t) ==
    [hash |-> h, to |-> t.to, sender |-> t.sender,
     timestamp |-> t.timestamp,
     slippage_tolerance |-> t.slippage_tolerance,
     is_uniswap_swap |-> t.is_uniswap_swap]

(* the list whose i-th element is c[i] with hash i *)
Cluster(n, c) == [i \in 1..n |-> Transaction(i, c[i])]

----------------------------------------------------------------------------
(* find_uniswap_swap: Iterator::find from the front *)

RECURSIVE FindFrom(_, _)
FindFrom(txs, i) ==
    IF i > Len(txs) THEN None
    ELSE IF txs[i].is_uniswap_swap THEN Some(txs[i])
    ELSE FindFrom(txs, i + 1)

(* Iterator::rfind instead of Iterator::find *)
RFind(txs) ==
    LET S == {i \in 1..Len(txs) : txs[i].is_uniswap_swap}
    IN  IF S = {} THEN None
        ELSE Some(txs[CHOOSE i \in S : \A j \in S : j <= i])

find_uniswap_swap(txs) == FindFrom(txs, 1)

----------------------------------------------------------------------------
(* find_matching_tx *)

(* the filter closure; MatchesAnyTo forgets the comparison of `to` *)
MatchesAnyTo(tx, v) == tx.hash /= v.hash

Matches(tx, v) == tx.to = v.to /\ tx.hash /= v.hash

(* the key closure of min_by_key: <<minuend, subtrahend>> of its u64       *)
(* subtraction                                                             *)
KeyOperands(tx, v, direction) ==
    IF direction = "Before"
    THEN <<v.timestamp, tx.timestamp>>
    ELSE <<tx.timestamp, v.timestamp>>

(* the key as the build without overflow checks computes it *)
DistanceKey(tx, v, direction) ==
    LET o == KeyOperands(tx, v, direction) IN WrappingSub(o[1], o[2])

(* the key closure evaluates a subtraction whose result is negative *)
KeyUnderflows(tx, v, direction) ==
    LET o == KeyOperands(tx, v, direction) IN Underflows(o[1], o[2])

(* Iterator::min_by_key: a left-to-right fold that replaces the running    *)
(* minimum only by a strictly smaller key, so the first minimum wins.      *)
(* KeepsLast is the fold of max_by_key's convention: the last one wins.    *)
KeepsLast(bestKey, newKey) == newKey <= bestKey

Replaces(bestKey, newKey) == newKey < bestKey

RECURSIVE MinByKey(_, _, _, _, _)
MinByKey(txs, v, direction, i, best) ==
    IF i > Len(txs) THEN best
    ELSE IF ~Matches(txs[i], v) THEN MinByKey(txs, v, direction, i + 1, best)
    ELSE IF best = 0 THEN MinByKey(txs, v, direction, i + 1, i)
    ELSE IF Replaces(DistanceKey(txs[best], v, direction),
                     DistanceKey(txs[i], v, direction))
         THEN MinByKey(txs, v, direction, i + 1, i)
         ELSE MinByKey(txs, v, direction, i + 1, best)

find_matching_tx(txs, v, direction) ==
    LET idx == MinByKey(txs, v, direction, 1, 0)
    IN  IF idx = 0 THEN None ELSE Some(txs[idx])

(* some key evaluated by find_matching_tx underflows *)
MatcherUnderflows(txs, v, direction) ==
    \E i \in 1..Len(txs) :
        Matches(txs[i], v) /\ KeyUnderflows(txs[i], v, direction)

----------------------------------------------------------------------------
(* the three conditions of detect_mev_sandwich *)

same_sender(fr, br) == fr.sender = br.sender

(* <<minuend, subtrahend>> of the u64 subtraction of time_within_limit;    *)
(* TimeOperandsUnordered always subtracts the frontrun from the backrun.   *)
TimeOperandsUnordered(fr, br) == <<br.timestamp, fr.timestamp>>

TimeOperands(fr, br) ==
    IF br.timestamp > fr.timestamp
    THEN <<br.timestamp, fr.timestamp>>
    ELSE <<fr.timestamp, br.timestamp>>

time_within_limit(fr, br) ==
    LET o == TimeOperands(fr, br) IN WrappingSub(o[1], o[2]) < TIME_LIMIT

(* the subtraction time_within_limit evaluates has a negative result *)
TimeUnderflows(fr, br) ==
    LET o == TimeOperands(fr, br) IN Underflows(o[1], o[2])

high_slippage_victim(v) ==
    IF v.slippage_tolerance = None THEN FALSE
    ELSE v.slippage_tolerance[1] > SLIPPAGE_THRESHOLD

(* VerdictAnySender forgets the comparison of the senders *)
VerdictAnySender(fr, br, v) ==
    time_within_limit(fr, br) /\ high_slippage_victim(v)

Verdict(fr, br, v) ==
    same_sender(fr, br) /\ time_within_limit(fr, br) /\ high_slippage_victim(v)

(* the length guard; EnoughAtTwo is off by one *)
EnoughAtTwo(txs) == Len(txs) >= MIN_TXS - 1

EnoughTransactions(txs) == Len(txs) >= MIN_TXS

----------------------------------------------------------------------------
(* The call of detect_mev_sandwich *)

Init ==
    /\ \E n \in 0..MaxLen :
          \E c \in [1..n -> TxPool] : transactions = Cluster(n, c)
    /\ pc = "start"
    /\ victim = None
    /\ frontrun = None
    /\ backrun = None
    /\ result = None
    /\ ran = {}
    /\ underflows = {}

(* if transactions.len() < 3 { return false; } *)
CheckLen ==
    /\ pc = "start"
    /\ ran' = ran \cup {"len"}
    /\ IF EnoughTransactions(transactions)
       THEN /\ pc' = "locate"
            /\ result' = result
       ELSE /\ pc' = "done"
            /\ result' = Some(FALSE)
    /\ UNCHANGED <<transactions, victim, frontrun, backrun, underflows>>

(* let victim = match find_uniswap_swap(..) { None => return false, .. } *)
LocateVictim ==
    /\ pc = "locate"
    /\ ran' = ran \cup {"locate"}
    /\ victim' = find_uniswap_swap(transactions)
    /\ IF victim' = None
       THEN /\ pc' = "done"
            /\ result' = Some(FALSE)
       ELSE /\ pc' = "before"
            /\ result' = result
    /\ UNCHANGED <<transactions, frontrun, backrun, underflows>>

(* let frontrun = find_matching_tx(.., Direction::Before), returning *)
MatchBefore ==
    /\ pc = "before"
    /\ ran' = ran \cup {"before"}
    /\ frontrun' = find_matching_tx(transactions, victim[1], "Before")
    /\ underflows' =
          IF MatcherUnderflows(transactions, victim[1], "Before")
          THEN underflows \cup {"before"} ELSE underflows
    /\ pc' = "after"
    /\ UNCHANGED <<transactions, victim, backrun, result>>

(* the same call in a build with overflow checks, when a key underflows *)
MatchBeforePanic ==
    /\ pc = "before"
    /\ MatcherUnderflows(transactions, victim[1], "Before")
    /\ ran' = ran \cup {"before"}
    /\ underflows' = underflows \cup {"before"}
    /\ pc' = "panicked"
    /\ UNCHANGED <<transactions, victim, frontrun, backrun, result>>

(* let backrun = find_matching_tx(.., Direction::After), returning *)
MatchAfter ==
    /\ pc = "after"
    /\ ran' = ran \cup {"after"}
    /\ backrun' = find_matching_tx(transactions, victim[1], "After")
    /\ underflows' =
          IF MatcherUnderflows(transactions, victim[1], "After")
          THEN underflows \cup {"after"} ELSE underflows
    /\ pc' = "evaluate"
    /\ UNCHANGED <<transactions, victim, frontrun, result>>

MatchAfterPanic ==
    /\ pc = "after"
    /\ MatcherUnderflows(transactions, victim[1], "After")
    /\ ran' = ran \cup {"after"}
    /\ underflows' = underflows \cup {"after"}
    /\ pc' = "panicked"
    /\ UNCHANGED <<transactions, victim, frontrun, backrun, result>>

(* if let (Some(fr), Some(br)) = (frontrun, backrun) { .. } else { false } *)
Evaluate ==
    /\ pc = "evaluate"
    /\ ran' = ran \cup {"evaluate"}
    /\ IF frontrun /= None /\ backrun /= None
       THEN /\ result' = Some(Verdict(frontrun[1], backrun[1], victim[1]))
            /\ underflows' =
                  IF TimeUnderflows(frontrun[1], backrun[1])
                  THEN underflows \cup {"evaluate"} ELSE underflows
       ELSE /\ result' = Some(FALSE)
            /\ underflows' = underflows
    /\ pc' = "done"
    /\ UNCHANGED <<transactions, victim, frontrun, backrun>>

Next ==
    \/ CheckLen
    \/ LocateVictim
    \/ MatchBefore
    \/ MatchBeforePanic
    \/ MatchAfter
    \/ MatchAfterPanic
    \/ Evaluate

Spec == Init /\ [][Next]_vars

----------------------------------------------------------------------------
(* Vocabulary of the properties *)

Abs(x) == IF x < 0 THEN 0 - x ELSE x

SwapIndices == {i \in 1..Len(transactions) : transactions[i].is_uniswap_swap}

(* index of the first swap-flagged transaction; used only when one exists *)
FirstSwapIndex == CHOOSE i \in SwapIndices : \A j \in SwapIndices : i <= j

(* transactions with the reference's `to` and another hash *)
Candidates(v) ==
    {i \in 1..Len(transactions) :
        transactions[i].to = v.to /\ transactions[i].hash /= v.hash}

(* signed time distance of a transaction from the reference *)
SignedDistance(tx, v, direction) ==
    IF direction = "Before" THEN v.timestamp - tx.timestamp
    ELSE tx.timestamp - v.timestamp

(* candidates on the requested side of the reference *)
OnSide(v, direction) ==
    {i \in Candidates(v) : SignedDistance(transactions[i], v, direction) >= 0}

(* candidates on the requested side at minimal distance *)
Nearest(v, direction) ==
    {i \in OnSide(v, direction) :
        \A j \in OnSide(v, direction) :
            SignedDistance(transactions[i], v, direction)
              <= SignedDistance(transactions[j], v, direction)}

(* find_matching_tx(.., Before) has returned / (.., After) has returned *)
ReturnedBefore == pc = "after" \/ "after" \in ran

ReturnedAfter == pc = "evaluate" \/ "evaluate" \in ran

(* the if-let of detect_mev_sandwich has bound both matches *)
BothFound == "evaluate" \in ran /\ frontrun /= None /\ backrun /= None

----------------------------------------------------------------------------
(* C1: in find_matching_tx no unsigned subtraction with a negative         *)
(* mathematical result is ever evaluated, for either direction.            *)
C1_NoMatcherUnderflow == underflows \cap {"before", "after"} = {}

(* C2: a transaction returned for Before has timestamp <= the reference's, *)
(* and one returned for After has timestamp >= the reference's.            *)
C2_DirectionConsistent ==
    /\ (ReturnedBefore /\ frontrun /= None)
          => frontrun[1].timestamp <= victim[1].timestamp
    /\ (ReturnedAfter /\ backrun /= None)
          => backrun[1].timestamp >= victim[1].timestamp

(* C3: with at least 3 transactions, a victim and both matches found, the  *)
(* verdict is true iff the senders are equal, the absolute timestamp       *)
(* difference is below 120 and the victim's slippage is present and above  *)
(* 0.05; with a match absent the verdict is false.                         *)
C3_VerdictIffThreeConditions ==
    (pc = "done" /\ "evaluate" \in ran) =>
        IF frontrun /= None /\ backrun /= None
        THEN result = Some(
                /\ frontrun[1].sender = backrun[1].sender
                /\ Abs(backrun[1].timestamp - frontrun[1].timestamp) < TIME_LIMIT
                /\ victim[1].slippage_tolerance /= None
                /\ victim[1].slippage_tolerance[1] > SLIPPAGE_THRESHOLD)
        ELSE result = Some(FALSE)

C3_Witness ==
    /\ pc = "done"
    /\ BothFound
    /\ Len(transactions) >= MIN_TXS
    /\ result = Some(TRUE)
    /\ frontrun[1].timestamp < victim[1].timestamp
    /\ victim[1].timestamp < backrun[1].timestamp

(* C4: the temporal-proximity condition equals |backrun.timestamp -        *)
(* frontrun.timestamp| < 120 in either ordering, is unchanged when the two *)
(* are exchanged, and evaluates no subtraction with a negative result.     *)
C4_TemporalProximity ==
    BothFound =>
        /\ time_within_limit(frontrun[1], backrun[1])
             = (Abs(backrun[1].timestamp - frontrun[1].timestamp) < TIME_LIMIT)
        /\ time_within_limit(backrun[1], frontrun[1])
             = time_within_limit(frontrun[1], backrun[1])
        /\ ~TimeUnderflows(frontrun[1], backrun[1])
        /\ ~TimeUnderflows(backrun[1], frontrun[1])
        /\ "evaluate" \notin underflows

C4_Witness ==
    /\ pc = "done"
    /\ BothFound
    /\ frontrun[1].timestamp > backrun[1].timestamp
    /\ frontrun[1].timestamp - backrun[1].timestamp < TIME_LIMIT
    /\ frontrun[1].sender = backrun[1].sender
    /\ result = Some(TRUE)

(* C5: a cluster of fewer than 3 transactions yields false, and neither    *)
(* the victim locator nor the matcher is run for it.                       *)
C5_SmallClusterFalse ==
    Len(transactions) < MIN_TXS =>
        /\ pc \in {"start", "done"}
        /\ ran \subseteq {"len"}
        /\ pc = "done" => result = Some(FALSE)
        /\ victim = None /\ frontrun = None /\ backrun = None

C5_Witness ==
    /\ pc = "done"
    /\ Len(transactions) = MIN_TXS - 1
    /\ SwapIndices /= {}
    /\ Candidates(transactions[FirstSwapIndex]) /= {}
    /\ result = Some(FALSE)

(* C6: when the cluster has a victim and no transaction with another hash  *)
(* has the victim's `to`, both matcher calls return none and the verdict   *)
(* is false.                                                               *)
C6_NoCandidateFalse ==
    (SwapIndices /= {} /\ Candidates(transactions[FirstSwapIndex]) = {}) =>
        /\ frontrun = None
        /\ backrun = None
        /\ pc /= "panicked"
        /\ pc = "done" => result = Some(FALSE)

C6_Witness ==
    /\ pc = "done"
    /\ "evaluate" \in ran
    /\ SwapIndices /= {}
    /\ Candidates(transactions[FirstSwapIndex]) = {}
    /\ victim[1].slippage_tolerance = Some(2 * SLIPPAGE_THRESHOLD)
    /\ result = Some(FALSE)

(* C7: find_uniswap_swap returns the transaction at the smallest index     *)
(* whose swap flag is set, and none exactly when no flag is set.           *)
C7_FirstSwapLocated ==
    "locate" \in ran =>
        IF SwapIndices = {} THEN victim = None
        ELSE victim = Some(transactions[FirstSwapIndex])

C7_Witness ==
    /\ "locate" \in ran
    /\ Cardinality(SwapIndices) >= 2
    /\ FirstSwapIndex > 1
    /\ victim = Some(transactions[FirstSwapIndex])
    /\ \E j \in SwapIndices :
          /\ transactions[j].timestamp < victim[1].timestamp
          /\ transactions[j].slippage_tolerance /= victim[1].slippage_tolerance

(* C8: find_matching_tx returns a transaction with the reference's `to`,   *)
(* another hash and minimal distance among those on the requested side,    *)
(* and none when no transaction satisfies these conditions.                *)
C8_NearestOnSide ==
    /\ ReturnedBefore =>
          IF OnSide(victim[1], "Before") = {} THEN frontrun = None
          ELSE \E i \in Nearest(victim[1], "Before") :
                  frontrun = Some(transactions[i])
    /\ ReturnedAfter =>
          IF OnSide(victim[1], "After") = {} THEN backrun = None
          ELSE \E i \in Nearest(victim[1], "After") :
                  backrun = Some(transactions[i])

(* the tie-break of one returned match *)
FirstOf(S) == CHOOSE i \in S : \A j \in S : i <= j

TieBreak(returned, direction) ==
    returned /= None =>
        /\ Nearest(victim[1], direction) /= {}
              => returned = Some(transactions[FirstOf(Nearest(victim[1], direction))])
        /\ \E i \in Candidates(victim[1]) :
              /\ returned = Some(transactions[i])
              /\ \A j \in Candidates(victim[1]) :
                    transactions[j].timestamp = transactions[i].timestamp
                        => i <= j

(* C9: among qualifying candidates tied at the minimal distance in the     *)
(* requested direction, find_matching_tx returns the first in input order; *)
(* no candidate tied with the returned one precedes it.                    *)
C9_TieBreakFirst ==
    /\ ReturnedBefore => TieBreak(frontrun, "Before")
    /\ ReturnedAfter => TieBreak(backrun, "After")

C9_Witness ==
    /\ ReturnedAfter
    /\ Cardinality(Nearest(victim[1], "Before")) >= 2
    /\ Cardinality(Nearest(victim[1], "After")) >= 2
    /\ \E i, j \in Nearest(victim[1], "Before") :
          /\ i < j
          /\ transactions[i].sender /= transactions[j].sender
          /\ frontrun = Some(transactions[i])
    /\ \E i, j \in Nearest(victim[1], "After") :
          /\ i < j
          /\ transactions[i].sender /= transactions[j].sender
          /\ backrun = Some(transactions[i])

(* C10: a true verdict has a frontrun and a backrun that are two distinct  *)
(* transactions, both distinct from the victim, so at least two            *)
(* transactions other than the victim share the victim's `to`.             *)
C10_DistinctFrontBack ==
    (pc = "done" /\ result = Some(TRUE)) =>
        /\ frontrun[1].hash /= backrun[1].hash
        /\ frontrun[1].hash /= victim[1].hash
        /\ backrun[1].hash /= victim[1].hash
        /\ Cardinality(Candidates(victim[1])) >= 2

====
